---- MODULE Spec2Model ----
(***************************************************************************)
(* QuestionForm (src/app.py): a FastAPI service over one SQLite table,     *)
(* `questions`.  Every request runs on its own connection; each SQL        *)
(* statement (with the commit that follows a write) is one atomic step, and *)
(* the steps of requests on different connections interleave freely.       *)
(***************************************************************************)
EXTENDS Integers, Sequences, FiniteSets, TLC

\* ------------------------------------------------------------------ bounds
MaxId == 2          \* rows ever inserted in the concurrent specification
MaxVotes == 2       \* votes a row can collect in the concurrent specification
MaxLen == 2         \* length of the short request texts
MaxListRows == 2    \* rows of the tables that list is applied to
MaxListVotes == 1   \* votes of the rows that list is applied to

\* ------------------------------------------------------- program constants
MinLength == 1      \* CreateQuestion.text min_length
MaxLength == 500    \* CreateQuestion.text max_length

Conns == {"c1", "c2"}

\* Optional[str]: None is <<>>, the string s is <<s>>.
None == <<>>
Some(s) == <<s>>

\* ------------------------------------------------------------- characters
\* A string whose characters matter is the sequence of its code points:
\* "a" is <<97>>, " a" is <<32, 97>>.

\* The characters str.isspace() holds of, which str.strip() removes:
\* U+0009..U+000D, U+001C..U+001F, U+0020, U+0085, U+00A0, U+1680,
\* U+2000..U+200A, U+2028, U+2029, U+202F, U+205F, U+3000.
Whitespace ==
  (9..13) \cup (28..32) \cup {133, 160, 5760} \cup (8192..8202)
    \cup {8232, 8233, 8239, 8287, 12288}

IsSpace(c) == c \in Whitespace

\* str.strip(): the text from its first to its last character that is not
\* whitespace. LStrip advances past the leading whitespace, RStrip backs over
\* the trailing whitespace.
LStrip(s) ==
  IF \A i \in 1..Len(s) : IsSpace(s[i]) THEN <<>>
  ELSE LET first == CHOOSE i \in 1..Len(s) :
                      ~IsSpace(s[i]) /\ \A j \in 1..(i - 1) : IsSpace(s[j])
       IN  SubSeq(s, first, Len(s))

RStrip(s) ==
  IF \A i \in 1..Len(s) : IsSpace(s[i]) THEN <<>>
  ELSE LET last == CHOOSE i \in 1..Len(s) :
                     ~IsSpace(s[i]) /\ \A j \in (i + 1)..Len(s) : IsSpace(s[j])
       IN  SubSeq(s, 1, last)

\* A strip that forgets the trailing whitespace.
StripLeading(s) == LStrip(s)

Strip(s) == RStrip(LStrip(s))

\* SQLite's BINARY collation on TEXT: memcmp, the shorter prefix first.
RECURSIVE LessFrom(_, _, _)
LessFrom(a, b, i) ==
  IF i > Len(b) THEN FALSE
  ELSE IF i > Len(a) THEN TRUE
  ELSE IF a[i] # b[i] THEN a[i] < b[i]
  ELSE LessFrom(a, b, i + 1)

LexLess(a, b) == LessFrom(a, b, 1)

\* ------------------------------------------------------------------- time
\* An instant of the wall clock: second of the minute and microsecond.
Instants ==
  { [sec |-> 0, usec |-> 0], [sec |-> 0, usec |-> 500000], [sec |-> 1, usec |-> 0] }

\* The digit n as a character ("0" is 48).
Digit(n) == 48 + n
Pad2(n) == <<Digit(n \div 10), Digit(n % 10)>>
Pad6(n) ==
  <<Digit((n \div 100000) % 10), Digit((n \div 10000) % 10), Digit((n \div 1000) % 10),
    Digit((n \div 100) % 10), Digit((n \div 10) % 10), Digit(n % 10)>>

\* datetime.isoformat() of an aware UTC datetime: the fraction is printed
\* only when the microsecond is not zero:
\* "2024-01-01T00:00:" SS [ "." ffffff ] "+00:00".
IsoFormat(t) ==
  <<50, 48, 50, 52, 45, 48, 49, 45, 48, 49, 84, 48, 48, 58, 48, 48, 58>>
    \o Pad2(t.sec)
    \o (IF t.usec = 0 THEN <<>> ELSE <<46>> \o Pad6(t.usec))
    \o <<43, 48, 48, 58, 48, 48>>

\* SQLite datetime(x) of an ISO-8601 string with a zero offset:
\* 'YYYY-MM-DD HH:MM:SS', the fraction of the second dropped.
SqlDatetime(s) == SubSeq(s, 1, 10) \o <<32>> \o SubSeq(s, 12, 19)

\* ------------------------------------------------------------------ state
VARIABLES
  ADMIN_TOKEN,   \* the secret read from the environment at import
  questions,     \* the table: rowid -> [text, votes, hidden, created_at]
  seq,           \* sqlite_sequence: the largest rowid ever assigned
  conn,          \* per connection: the request it serves and where it stands
  assigned,      \* history: the ids handed out by INSERT
  deleted,       \* history: the ids whose delete request succeeded
  voteOk,        \* history: successful vote responses per row of the table
  listArgs,      \* the arguments of the last list request
  listed         \* the response of the last list request

vars ==
  <<ADMIN_TOKEN, questions, seq, conn, assigned, deleted, voteOk,
    listArgs, listed>>

Ids == 1..MaxId

Idle ==
  [op |-> "none", pc |-> "idle", qid |-> 0, token |-> None, text |-> <<>>,
   seen |-> 0, rowid |-> 0, result |-> "none", afterDel |-> FALSE, topGone |-> FALSE]

Secrets == {None, Some(""), Some("s")}
Tokens == {None, Some(""), Some("s"), Some("x")}

\* The request texts and clock readings of the concurrent specification.
Texts == {<<>>, <<32>>, <<9>>, <<97>>}
Clock == {[sec |-> 0, usec |-> 0]}

NoList == [include_hidden |-> FALSE, order |-> "none"]

Init ==
  /\ ADMIN_TOKEN \in Secrets
  /\ questions = <<>>
  /\ seq = 0
  /\ conn = [c \in Conns |-> Idle]
  /\ assigned = {}
  /\ deleted = {}
  /\ voteOk = [i \in Ids |-> 0]
  /\ listArgs = NoList
  /\ listed = <<>>

\* ------------------------------------------------------------ admin guard
Truthy(o) == o # None /\ o[1] # ""

\* A guard that forgets to refuse when no secret is configured.
RequireAdminUnset(token) ==
  IF token # ADMIN_TOKEN THEN "Unauthorized" ELSE "pass"

RequireAdmin(token) ==
  IF ~Truthy(ADMIN_TOKEN) THEN "Unavailable"
  ELSE IF ~Truthy(token) \/ token # ADMIN_TOKEN THEN "Unauthorized"
  ELSE "pass"

\* ---------------------------------------------------------------- storage
Max(S) == CHOOSE x \in S : \A y \in S : y <= x

\* A plain INTEGER PRIMARY KEY: one more than the largest rowid in the table.
NextRowidPlain(tbl, s) == Max(DOMAIN tbl \cup {0}) + 1

\* INTEGER PRIMARY KEY AUTOINCREMENT: one more than the largest rowid the
\* table has ever held.
NextRowid(tbl, s) == Max(DOMAIN tbl \cup {s}) + 1

\* A delete that leaves the row in place.
RemoveNothing(tbl, id) == tbl

\* DELETE FROM questions WHERE id = ?
Remove(tbl, id) == [i \in DOMAIN tbl \ {id} |-> tbl[i]]

Insert(tbl, id, row) == [i \in DOMAIN tbl \cup {id} |-> IF i = id THEN row ELSE tbl[i]]

\* SET votes = votes + 1 WHERE id = ?
UpdateVotes(tbl, id) ==
  IF id \in DOMAIN tbl THEN [tbl EXCEPT ![id].votes = @ + 1] ELSE tbl

\* UPDATE questions SET hidden = ? WHERE id = ?
UpdateHidden(tbl, id, h) ==
  IF id \in DOMAIN tbl THEN [tbl EXCEPT ![id].hidden = h] ELSE tbl

Histories == <<assigned, deleted, voteOk>>
ListVars == <<listArgs, listed>>

\* A request as it arrives on an idle connection.
Begin(op, qid, token) ==
  [Idle EXCEPT !.op = op, !.qid = qid, !.token = token, !.afterDel = qid \in deleted]

\* The handler returns or raises: the locals die with the frame.
End(r, result) ==
  [r EXCEPT !.pc = "done", !.result = result, !.qid = 0, !.seen = 0, !.rowid = 0]

Done(c, result) == conn' = [conn EXCEPT ![c] = End(conn[c], result)]
Goto(c, pc) == conn' = [conn EXCEPT ![c].pc = pc]

\* ------------------------------------------------------------------- vote
\* SELECT id, votes, hidden ... ; 404 when absent, 403 when hidden.
VoteStart(c, qid) ==
  /\ conn[c].pc = "idle"
  /\ LET r == Begin("vote", qid, None)
     IN  conn' = [conn EXCEPT ![c] =
                    IF qid \notin DOMAIN questions THEN End(r, "NotFound")
                    ELSE IF questions[qid].hidden THEN End(r, "Forbidden")
                    ELSE [r EXCEPT !.pc = "update", !.seen = questions[qid].votes]]
  /\ UNCHANGED <<ADMIN_TOKEN, questions, seq, Histories, ListVars>>

\* A lost update: the service writes back the votes it read, plus one.
VoteWriteBack(tbl, id, seen) ==
  IF id \in DOMAIN tbl THEN [tbl EXCEPT ![id].votes = seen + 1] ELSE tbl

\* UPDATE questions SET votes = votes + 1 WHERE id = ? ; the increment is the
\* statement's own, whatever row["votes"] (seen) was.
VoteStatement(tbl, id, seen) == UpdateVotes(tbl, id)

VoteUpdate(c) ==
  /\ conn[c].op = "vote" /\ conn[c].pc = "update"
  /\ conn[c].qid \in DOMAIN questions => questions[conn[c].qid].votes < MaxVotes
  /\ questions' = VoteStatement(questions, conn[c].qid, conn[c].seen)
  /\ conn' = [conn EXCEPT ![c].pc = "readback", ![c].seen = 0]  \* row is dead
  /\ UNCHANGED <<ADMIN_TOKEN, seq, Histories, ListVars>>

\* SELECT votes ... .fetchone()["votes"]: a missing row is a TypeError.
VoteReadback(c) ==
  /\ conn[c].op = "vote" /\ conn[c].pc = "readback"
  /\ IF conn[c].qid \in DOMAIN questions
     THEN /\ Done(c, "Ok")
          /\ voteOk' = [voteOk EXCEPT ![conn[c].qid] = @ + 1]
     ELSE /\ Done(c, "Fault")
          /\ UNCHANGED voteOk
  /\ UNCHANGED <<ADMIN_TOKEN, questions, seq, assigned, deleted, ListVars>>

\* ---------------------------------------------------------- hide / unhide
\* op is "hide" or "unhide": require_admin, then SELECT * ... ; 404 when absent.
ModStart(c, op, qid, token) ==
  /\ conn[c].pc = "idle"
  /\ LET r == Begin(op, qid, token)
         g == RequireAdmin(token)
     IN  conn' = [conn EXCEPT ![c] =
                    IF g # "pass" THEN End(r, g)
                    ELSE IF qid \notin DOMAIN questions THEN End(r, "NotFound")
                    ELSE [r EXCEPT !.pc = "update"]]
  /\ UNCHANGED <<ADMIN_TOKEN, questions, seq, Histories, ListVars>>

\* UPDATE ... SET hidden = 1 (hide) or 0 (unhide) ; commit
ModUpdate(c) ==
  /\ conn[c].op \in {"hide", "unhide"} /\ conn[c].pc = "update"
  /\ questions' = UpdateHidden(questions, conn[c].qid, conn[c].op = "hide")
  /\ Goto(c, "readback")
  /\ UNCHANGED <<ADMIN_TOKEN, seq, Histories, ListVars>>

\* row_to_question(fetchone()): a missing row is a TypeError.
ModReadback(c) ==
  /\ conn[c].op \in {"hide", "unhide"} /\ conn[c].pc = "readback"
  /\ IF conn[c].qid \in DOMAIN questions THEN Done(c, "Ok") ELSE Done(c, "Fault")
  /\ UNCHANGED <<ADMIN_TOKEN, questions, seq, Histories, ListVars>>

\* ----------------------------------------------------------------- delete
\* require_admin, then DELETE ... ; commit ; rowcount == 0 is 404.
DeleteQuestion(c, qid, token) ==
  /\ conn[c].pc = "idle"
  /\ LET r == Begin("delete", qid, token)
         g == RequireAdmin(token)
     IN  IF g # "pass"
         THEN /\ conn' = [conn EXCEPT ![c] = End(r, g)]
              /\ UNCHANGED <<questions, deleted, voteOk>>
         ELSE IF qid \notin DOMAIN questions
         THEN /\ conn' = [conn EXCEPT ![c] = End(r, "NotFound")]
              /\ UNCHANGED <<questions, deleted, voteOk>>
         ELSE /\ questions' = Remove(questions, qid)
              /\ deleted' = deleted \cup {qid}
              /\ voteOk' = [voteOk EXCEPT ![qid] = 0]
              /\ conn' = [conn EXCEPT ![c] = End(r, "Ok")]
  /\ UNCHANGED <<ADMIN_TOKEN, seq, assigned, ListVars>>

\* ----------------------------------------------------------------- create
\* The code points that no Unicode string holds: the surrogates U+D800..U+DFFF.
\* A str field refuses a value holding one (string_unicode).
Surrogates == 55296..57343

\* A text that can be written as UTF-8: it holds no lone surrogate.
Encodable(text) == \A i \in 1..Len(text) : text[i] \notin Surrogates

\* The body model accepts a valid Unicode string of 1 to 500 characters.
Validate(text) ==
  /\ Encodable(text)
  /\ Len(text) >= MinLength
  /\ Len(text) <= MaxLength

\* A text the body model rejects ends the request before the handler runs:
\* with the validation error (422) when the error body, which quotes the text,
\* can be encoded, and with an unhandled UnicodeEncodeError (500) when the
\* text holds a lone surrogate. The handler strips and rejects the empty
\* text (400).
CreateOutcome(text) ==
  IF ~Validate(text) THEN (IF Encodable(text) THEN "Invalid" ELSE "Fault")
  ELSE IF Strip(text) = <<>> THEN "BadRequest"
  ELSE "insert"

NewRow(text, now) == [text |-> text, votes |-> 0, hidden |-> FALSE, created_at |-> now]

\* Validation, strip, the clock, then INSERT ... VALUES (?, 0, 0, ?) ; commit.
\* The record keeps payload.text; cur.lastrowid is rowid; topGone notes that
\* the largest id handed out so far had been deleted when the row went in.
CreateStart(c, text, now) ==
  /\ conn[c].pc = "idle"
  /\ LET r == [Idle EXCEPT !.op = "create", !.text = text]
         o == CreateOutcome(text)
         id == NextRowid(questions, seq)
     IN  IF o # "insert"
         THEN /\ conn' = [conn EXCEPT ![c] = End(r, o)]
              /\ UNCHANGED <<questions, seq, assigned>>
         ELSE /\ seq < MaxId
              /\ questions' = Insert(questions, id, NewRow(Strip(text), IsoFormat(now)))
              /\ seq' = id
              /\ assigned' = assigned \cup {id}
              /\ conn' = [conn EXCEPT ![c] = [r EXCEPT !.pc = "readback", !.rowid = id,
                                                     !.topGone = seq \in deleted]]
  /\ UNCHANGED <<ADMIN_TOKEN, deleted, voteOk, ListVars>>

\* SELECT * ... WHERE id = lastrowid ; row_to_question(row)
CreateReadback(c) ==
  /\ conn[c].op = "create" /\ conn[c].pc = "readback"
  /\ IF conn[c].rowid \in DOMAIN questions THEN Done(c, "Ok") ELSE Done(c, "Fault")
  /\ UNCHANGED <<ADMIN_TOKEN, questions, seq, Histories, ListVars>>

\* The response is sent and the connection closed.
Finish(c) ==
  /\ conn[c].pc = "done"
  /\ conn' = [conn EXCEPT ![c] = Idle]
  /\ UNCHANGED <<ADMIN_TOKEN, questions, seq, Histories, ListVars>>

Next ==
  \E c \in Conns :
    \/ \E q \in Ids : VoteStart(c, q)
    \/ VoteUpdate(c)
    \/ VoteReadback(c)
    \/ \E op \in {"hide", "unhide"}, q \in Ids, t \in Tokens : ModStart(c, op, q, t)
    \/ ModUpdate(c)
    \/ ModReadback(c)
    \/ \E q \in Ids, t \in Tokens : DeleteQuestion(c, q, t)
    \/ \E x \in Texts, n \in Clock : CreateStart(c, x, n)
    \/ CreateReadback(c)
    \/ Finish(c)

Spec == Init /\ [][Next]_vars

\* ------------------------------------------------------------------- list
RowToQuestion(id, row) ==
  [id |-> id, text |-> row.text, votes |-> row.votes, hidden |-> row.hidden,
   created_at |-> row.created_at]

\* WHERE hidden = 0, unless include_hidden.
Matching(tbl, include_hidden) ==
  {i \in DOMAIN tbl : include_hidden \/ ~tbl[i].hidden}

\* top with the tiebreak turned round: ORDER BY votes DESC, created_at DESC.
OrderByTieDesc(order, a, b) ==
  IF order = "top"
  THEN a.votes > b.votes \/ (a.votes = b.votes /\ ~LexLess(a.created_at, b.created_at))
  ELSE ~LexLess(SqlDatetime(a.created_at), SqlDatetime(b.created_at))

\* ORDER BY votes DESC, created_at ASC (top) or ORDER BY datetime(created_at)
\* DESC (new): may row a stand before row b?
OrderBy(order, a, b) ==
  IF order = "top"
  THEN a.votes > b.votes \/ (a.votes = b.votes /\ ~LexLess(b.created_at, a.created_at))
  ELSE ~LexLess(SqlDatetime(a.created_at), SqlDatetime(b.created_at))

\* The result sets SQL allows: rows with equal sort keys come in any order.
\* Sorted(tbl, S, order): every arrangement of the ids S in which each row
\* may stand before all the rows after it.
RECURSIVE Sorted(_, _, _)
Sorted(tbl, S, order) ==
  IF S = {} THEN {<<>>}
  ELSE UNION { { <<m>> \o p : p \in Sorted(tbl, S \ {m}, order) } :
               m \in {x \in S : \A y \in S : OrderBy(order, tbl[x], tbl[y])} }

Listings(tbl, include_hidden, order) == Sorted(tbl, Matching(tbl, include_hidden), order)

ListQuestions(include_hidden, order) ==
  /\ \E p \in Listings(questions, include_hidden, order) :
       listed' = [k \in DOMAIN p |-> RowToQuestion(p[k], questions[p[k]])]
  /\ listArgs' = [include_hidden |-> include_hidden, order |-> order]
  /\ UNCHANGED <<ADMIN_TOKEN, questions, seq, conn, Histories>>

\* The tables list is applied to: any rows the requests can leave behind.
ListRows ==
  [text : {<<97>>}, votes : 0..MaxListVotes, hidden : BOOLEAN,
   created_at : {IsoFormat(t) : t \in Instants}]

InitList ==
  /\ ADMIN_TOKEN = Some("s")
  /\ \E D \in SUBSET (1..MaxListRows) : questions \in [D -> ListRows]
  /\ seq = MaxListRows
  /\ conn = [c \in Conns |-> Idle]
  /\ assigned = 1..MaxListRows
  /\ deleted = (1..MaxListRows) \ DOMAIN questions
  /\ voteOk = [i \in Ids |-> 0]
  /\ listArgs = NoList
  /\ listed = <<>>

NextList == \E h \in BOOLEAN, o \in {"new", "top"} : ListQuestions(h, o)

SpecList == InitList /\ [][NextList]_vars

\* ----------------------------------------------------- create, one by one
Rep(ch, n) == [i \in 1..n |-> ch]

RECURSIVE Words(_)
Words(n) ==
  IF n = 0 THEN {<<>>}
  ELSE Words(n - 1) \cup {Append(w, ch) : w \in Words(n - 1), ch \in {32, 9, 97}}

\* Every text of at most MaxLen characters over space, tab and "a"; each
\* whitespace character alone and around an "a"; texts at the length limit;
\* texts holding a surrogate, alone, beside a letter and between spaces.
CreateTexts ==
  Words(MaxLen)
    \cup {<<w>> : w \in Whitespace}
    \cup {<<w, 97, w>> : w \in Whitespace}
    \cup {Rep(97, MaxLength), Rep(97, MaxLength + 1), Rep(32, MaxLength),
          Rep(32, MaxLength + 1), <<32>> \o Rep(97, MaxLength - 1)}
    \cup {<<55296>>, <<57343>>, <<97, 57343>>, <<55296, 97>>, <<32, 55357, 32>>,
          <<56320, 32>>}

NextCreate ==
  \/ \E x \in CreateTexts, n \in Clock : CreateStart("c1", x, n)
  \/ CreateReadback("c1")
  \/ VoteStart("c1", 1)
  \/ VoteUpdate("c1")
  \/ VoteReadback("c1")
  \/ Finish("c1")

SpecCreate == Init /\ [][NextCreate]_vars

\* ================================================================ claims
AdminOps == {"hide", "unhide", "delete"}
Named == {"NotFound", "Forbidden", "Unauthorized", "Unavailable"}

\* A server secret is configured: the variable is set and not empty.
Configured == ADMIN_TOKEN # None /\ ADMIN_TOKEN # Some("")

Min(S) == CHOOSE x \in S : \A y \in S : x <= y

\* The text without its leading and trailing whitespace.
Trimmed(s) ==
  LET I == {i \in 1..Len(s) : s[i] \notin Whitespace}
  IN  IF I = {} THEN <<>> ELSE SubSeq(s, Min(I), Max(I))

\* The instant an ISO-8601 created_at string denotes.
DigitVal(ch) == ch - 48
ParseIso(s) ==
  [sec |-> 10 * DigitVal(s[18]) + DigitVal(s[19]),
   usec |-> IF s[20] = 46
            THEN 100000 * DigitVal(s[21]) + 10000 * DigitVal(s[22]) + 1000 * DigitVal(s[23])
                   + 100 * DigitVal(s[24]) + 10 * DigitVal(s[25]) + DigitVal(s[26])
            ELSE 0]
Earlier(t, u) == t.sec < u.sec \/ (t.sec = u.sec /\ t.usec < u.usec)
CreatedEarlier(q, r) == Earlier(ParseIso(q.created_at), ParseIso(r.created_at))

\* C1: under any interleaving, a row's votes never decrease, and a step that
\* raises a row's votes finds the row's hidden flag false.
C1_VotesGrowOnlyWhileVisible ==
  [][\A i \in DOMAIN questions \cap DOMAIN questions' :
       /\ questions'[i].votes >= questions[i].votes
       /\ questions'[i].votes > questions[i].votes => ~questions[i].hidden]_vars

\* C2: no lost updates: once no vote on a row is between its UPDATE and its
\* response, the row's votes equal the number of successful vote responses
\* for it (each successful vote added exactly 1 to the initial 0).
C2_NoLostVotes ==
  \A i \in DOMAIN questions :
    (\A c \in Conns : ~(conn[c].op = "vote" /\ conn[c].pc = "readback" /\ conn[c].qid = i))
      => questions[i].votes = voteOk[i]

\* Two vote requests, one per connection, have both succeeded on row 1.
C2_Witness ==
  /\ \A c \in Conns : conn[c].op = "vote" /\ conn[c].pc = "done" /\ conn[c].result = "Ok"
  /\ 1 \in DOMAIN questions /\ questions[1].votes = 2 /\ voteOk[1] = 2

\* C3: the admin guard comes first. An admin request (hide, unhide, delete)
\* is Unavailable whenever no secret is configured, Unauthorized whenever the
\* token is absent or differs from the configured secret, for every id; it
\* runs a statement, or ends NotFound or Ok, only with the token equal to the
\* secret; and the step that refuses it leaves the table unchanged.
C3_GuardState(r) ==
  r.op \in AdminOps =>
    /\ ~Configured => r.pc = "done" /\ r.result = "Unavailable"
    /\ Configured /\ (r.token = None \/ r.token # ADMIN_TOKEN)
         => r.pc = "done" /\ r.result = "Unauthorized"
    /\ r.pc # "done" \/ r.result \in {"NotFound", "Ok", "Fault"}
         => Configured /\ r.token = ADMIN_TOKEN

C3_AdminGuardFirst ==
  [][\A c \in Conns :
       /\ C3_GuardState(conn'[c])
       /\ conn[c].pc = "idle" /\ conn'[c].result \in {"Unavailable", "Unauthorized"}
            => questions' = questions]_vars

\* A hide, unhide or delete with a wrong token was refused while rows exist.
C3_Witness ==
  \E c \in Conns :
    /\ conn[c].op \in AdminOps /\ conn[c].pc = "done"
    /\ conn[c].token = Some("x") /\ conn[c].result = "Unauthorized"
    /\ questions # <<>>

\* C4 as stated: every vote, hide, unhide or delete that starts after a
\* successful delete of its id fails with NotFound.
C4_AfterDeleteNotFound ==
  \A c \in Conns :
    conn[c].afterDel /\ conn[c].pc = "done" => conn[c].result = "NotFound"

\* C4 as amended: a request that starts after a successful delete of its id
\* never reaches a statement past its existence check and fails: with NotFound
\* when it is a vote or carries the configured secret, with Unauthorized
\* otherwise.
C4_AfterDeleteFails ==
  \A c \in Conns :
    conn[c].afterDel =>
      /\ conn[c].pc = "done"
      /\ conn[c].result =
           IF conn[c].op = "vote" \/ conn[c].token = ADMIN_TOKEN
           THEN "NotFound" ELSE "Unauthorized"

\* A request on a deleted id ended NotFound after a later question was created.
C4_Witness ==
  \E c \in Conns :
    /\ conn[c].afterDel /\ conn[c].pc = "done" /\ conn[c].result = "NotFound"
    /\ \E d \in deleted : \E i \in DOMAIN questions : i > d

\* C5: the id of a newly inserted row is greater than every id handed out
\* before, deleted or not.
C5_IdsNeverReused ==
  [][\A i \in DOMAIN questions' \ DOMAIN questions : \A j \in assigned : i > j]_vars

\* A row went in after the question with the highest id had been deleted, and
\* it is the only row of the table.
C5_Witness ==
  \E c \in Conns :
    /\ conn[c].op = "create" /\ conn[c].pc = "readback" /\ conn[c].topGone
    /\ DOMAIN questions = {conn[c].rowid}

\* C6: list with order=top returns exactly the visible rows (all rows with
\* include_hidden), each once and as stored, by votes descending and, at equal
\* votes, by creation time ascending.
C6_TopOrder ==
  listArgs.order = "top" =>
    LET M == {i \in DOMAIN questions : listArgs.include_hidden \/ ~questions[i].hidden}
    IN  /\ Len(listed) = Cardinality(M)
        /\ {listed[k].id : k \in DOMAIN listed} = M
        /\ \A k \in DOMAIN listed :
             LET q == listed[k]
             IN  /\ q.id \in DOMAIN questions
                 /\ questions[q.id] =
                      [text |-> q.text, votes |-> q.votes, hidden |-> q.hidden,
                       created_at |-> q.created_at]
        /\ \A i, j \in DOMAIN listed :
             i < j =>
               \/ listed[i].votes > listed[j].votes
               \/ /\ listed[i].votes = listed[j].votes
                  /\ ~CreatedEarlier(listed[j], listed[i])

\* Two rows with equal votes are listed by top, the earlier one first although
\* it has the higher id and the two differ only below the second.
C6_Witness ==
  /\ listArgs.order = "top" /\ Len(listed) = 2
  /\ listed[1].votes = listed[2].votes
  /\ listed[1].id > listed[2].id
  /\ CreatedEarlier(listed[1], listed[2])
  /\ ParseIso(listed[1].created_at).sec = ParseIso(listed[2].created_at).sec

\* C7: list with order=new puts X before Y whenever X was created after Y,
\* also when the two differ only in the sub-second part.
C7_NewestFirst ==
  listArgs.order = "new" =>
    \A i, j \in DOMAIN listed : i < j => ~CreatedEarlier(listed[i], listed[j])

\* C8: every create whose trimmed text is not empty returns the persisted
\* record, under any interleaving.
C8_CreateReturnsRecord ==
  \A c \in Conns :
    conn[c].op = "create" /\ conn[c].pc = "done" /\ Trimmed(conn[c].text) # <<>>
      => conn[c].result = "Ok"

\* The table after a create step holds exactly one new row, with the trimmed
\* text, no votes and not hidden, and the old rows as they were.
C9_OneRowAdded(text) ==
  \E id \in DOMAIN questions' \ DOMAIN questions :
    /\ DOMAIN questions' = DOMAIN questions \cup {id}
    /\ questions'[id].text = Trimmed(text)
    /\ questions'[id].votes = 0
    /\ questions'[id].hidden = FALSE
    /\ \A i \in DOMAIN questions : questions'[i] = questions[i]

C9_Arrives(c) == conn[c].pc = "idle" /\ conn'[c].op = "create"

C9_NotUnicode(text) == \E i \in 1..Len(text) : text[i] >= 55296 /\ text[i] <= 57343

C10_NamedOutcome ==
  \A c \in Conns :
    conn[c].op \in {"vote", "hide", "unhide"} /\ conn[c].pc = "done"
      => conn[c].result \in Named \cup {"Ok"}

====
